---- MODULE Spec2Model ----
(***************************************************************************)
(* Model of the order router of src/src/App.js (the second component of    *)
(* the file, lines 295-702): the roster `team`, the rules engine           *)
(* determineRouting, the asynchronous handler processOrder and the manual  *)
(* counter edits of updateTeamStats.                                        *)
(*                                                                         *)
(* JavaScript strings on which the code works character by character      *)
(* (prefixes, part numbers, roles, searched text, typed numbers) are       *)
(* sequences of one-character strings; names and messages, which are only  *)
(* compared or copied, are TLA+ strings.  An optional number is a sequence  *)
(* of length at most 1 (<<>> is "absent").  An absent list behaves as the  *)
(* empty list everywhere the code reads it (`x || []`, `if (x)`, `x?.`),   *)
(* so both are <<>>.                                                        *)
(***************************************************************************)
EXTENDS Integers, Sequences, FiniteSets, TLC

VARIABLES
    file,           \* useState: the selected file, or Null
    analyzing,      \* useState: BOOLEAN
    currentOrder,   \* useState: <<>> (null) or <<finalOrder>>
    error,          \* useState: a message, or Null
    team,           \* useState: the roster, a sequence of members
    routingLog,     \* useState: the trail shown on screen
    pc,             \* where the one processOrder run in flight stands
    attempt,        \* fetchWithBackoff's local `attempt`
    closureTeam,    \* the `team` bound in the closure of the run in flight
    extractedData,  \* the callback's local `extractedData`: <<>> or <<data>>
    rejection       \* the reason of the callback's rejected promise, or Null

vars == <<file, analyzing, currentOrder, error, team, routingLog, pc, attempt,
          closureTeam, extractedData, rejection>>

Null == "null"

(***************************************************************************)
(* Characters and the string methods the code calls.                       *)
(***************************************************************************)
LowerCase == <<"a","b","c","d","e","f","g","h","i","j","k","l","m",
               "n","o","p","q","r","s","t","u","v","w","x","y","z">>
UpperCase == <<"A","B","C","D","E","F","G","H","I","J","K","L","M",
               "N","O","P","Q","R","S","T","U","V","W","X","Y","Z">>
DigitChars == <<"0","1","2","3","4","5","6","7","8","9">>

Range(s) == {s[i] : i \in 1..Len(s)}

IndexOf(c, s) == IF c \in Range(s) THEN CHOOSE i \in 1..Len(s) : s[i] = c ELSE 0

\* String.prototype.toUpperCase, one character
toUpperCaseChar(c) ==
    LET i == IndexOf(c, LowerCase) IN IF i = 0 THEN c ELSE UpperCase[i]

\* String.prototype.toUpperCase
toUpperCase(s) == [i \in 1..Len(s) |-> toUpperCaseChar(s[i])]

\* String.prototype.includes
includes(s, sub) ==
    \E i \in 0..(Len(s) - Len(sub)) : SubSeq(s, i + 1, i + Len(sub)) = sub

\* String.prototype.startsWith
startsWith(s, p) == Len(s) >= Len(p) /\ SubSeq(s, 1, Len(p)) = p

\* Array.prototype.includes
arrayIncludes(arr, x) == \E i \in 1..Len(arr) : arr[i] = x

\* Array.prototype.join(" ") (an undefined element joins as the empty string)
RECURSIVE join(_)
join(fields) ==
    IF Len(fields) = 0 THEN <<>>
    ELSE IF Len(fields) = 1 THEN fields[1]
    ELSE fields[1] \o <<" ">> \o join(Tail(fields))

\* Array.prototype.flatMap over a sequence of sequences
RECURSIVE flatten(_)
flatten(ss) == IF Len(ss) = 0 THEN <<>> ELSE ss[1] \o flatten(Tail(ss))

\* p.replace(/[^0-9A-Z]/g, '')
cleanPrefix(p) ==
    SelectSeq(p, LAMBDA c : c \in Range(DigitChars) \cup Range(UpperCase))

(***************************************************************************)
(* Configuration of the rules engine.                                      *)
(***************************************************************************)
keyingPrefixes ==
    << <<"1","0">>, <<"2","1">>, <<"2","2">>, <<"5","1">>, <<"5","9">>,
       <<"8","2">>, <<"8","3">>, <<"7","3">>, <<"A","L">> >>

keyingKeywords ==
    << <<"M","K">>, <<"G","M","K">>, <<"S","K","D">>, <<"K","A">>,
       <<"K","E","Y","E","D">>,
       <<"M","A","S","T","E","R"," ","K","E","Y">>,
       <<"G","R","A","N","D"," ","M","A","S","T","E","R">>,
       <<"K","E","S","O">> >>

OrderEntry == <<"O","r","d","e","r"," ","E","n","t","r","y">>
Keying == <<"K","e","y","i","n","g">>
IntlKeying == <<"I","n","t","l","/","K","e","y","i","n","g">>
Chargebacks == <<"C","h","a","r","g","e","b","a","c","k","s">>

Member(id, name, role, cards, totalPages) ==
    [id |-> id, name |-> name, role |-> role, cards |-> cards,
     totalPages |-> totalPages]

\* the roster the component starts from (colours are display only)
INITIAL_TEAM ==
    << Member(1, "Hector Origel", OrderEntry, 5, 45),
       Member(2, "Jairo Figueroa", OrderEntry, 4, 25),
       Member(5, "Claudia Franco", OrderEntry, 9, 12),
       Member(6, "Emmanuel Rojas", OrderEntry, 3, 30),
       Member(7, "Paulina Lobo", OrderEntry, 0, 0),
       Member(3, "Maureen Thompson", IntlKeying, 12, 60),
       Member(4, "Susan Alpert", Chargebacks, 2, 5) >>

(***************************************************************************)
(* determineRouting (lines 358-441), read against the roster tm that its   *)
(* closure binds.                                                          *)
(***************************************************************************)

\* first index at which hits is TRUE, 0 when there is none
\* (Array.prototype.find / the position at which a for..of loop breaks)
FirstIndex(hits) ==
    IF \E i \in 1..Len(hits) : hits[i]
    THEN CHOOSE i \in 1..Len(hits) : hits[i] /\ \A j \in 1..(i - 1) : ~hits[j]
    ELSE 0

\* mutant: the number of line items comes first
actualLineCount_ItemsFirst(data) ==
    IF Len(data.lineItems) # 0 THEN Len(data.lineItems)
    ELSE IF data.totalLineCount # <<>> THEN data.totalLineCount[1]
    ELSE 0

\* data.totalLineCount || data.lineItems?.length || 0
actualLineCount(data) ==
    IF data.totalLineCount # <<>> /\ data.totalLineCount[1] # 0
    THEN data.totalLineCount[1]
    ELSE Len(data.lineItems)

\* 1. Check Line Item Volume
volumeFlags(n) ==
    IF n >= 10 THEN <<"10+ LINES">>
    ELSE IF n > 0 /\ n <= 3 THEN <<"CHECKERED FLAG">>
    ELSE <<>>

\* (item.prefixes || []).map(p => p.replace(...))
cleanPrefixList(item) ==
    [i \in 1..Len(item.prefixes) |-> cleanPrefix(item.prefixes[i])]

\* mutant: no item is skipped
isFalsePositive_Never(item) == FALSE

\* Hallucination Fix: the item the loop skips with `continue`
isFalsePositive(item) ==
    /\ item.partNumber # <<>>
    /\ startsWith(item.partNumber, <<"3","1">>)
    /\ arrayIncludes(cleanPrefixList(item), <<"A","L">>)

\* mutant: the last restricted prefix of the list, not the first
badPrefixOf_Last(list) ==
    IF \E i \in 1..Len(list) : arrayIncludes(keyingPrefixes, list[i])
    THEN list[CHOOSE i \in 1..Len(list) :
                /\ arrayIncludes(keyingPrefixes, list[i])
                /\ \A j \in (i + 1)..Len(list) :
                      ~arrayIncludes(keyingPrefixes, list[j])]
    ELSE <<>>

\* cleanPrefixList.find(p => keyingPrefixes.includes(p)): <<>> is undefined
badPrefixOf(list) ==
    LET i == FirstIndex([n \in 1..Len(list) |->
                            arrayIncludes(keyingPrefixes, list[n])])
    IN  IF i = 0 THEN <<>> ELSE list[i]

\* mutant: the loop does not break, the last matching item is kept
matchedItem_Last(lineItems) ==
    LET hit(item) == /\ ~isFalsePositive(item)
                     /\ badPrefixOf(cleanPrefixList(item)) # <<>>
    IN  IF \E i \in 1..Len(lineItems) : hit(lineItems[i])
        THEN CHOOSE i \in 1..Len(lineItems) :
                hit(lineItems[i])
                /\ \A j \in (i + 1)..Len(lineItems) : ~hit(lineItems[j])
        ELSE 0

\* the item at which the for loop breaks (its index), 0 when it runs to the end
matchedItem(lineItems) ==
    FirstIndex([n \in 1..Len(lineItems) |->
                   /\ ~isFalsePositive(lineItems[n])
                   /\ badPrefixOf(cleanPrefixList(lineItems[n])) # <<>>])

safeSearchFields(data) ==
    data.routingKeywords
    \o [i \in 1..Len(data.pages) |-> data.pages[i].summary]
    \o flatten([i \in 1..Len(data.pages) |->
                  [j \in 1..Len(data.pages[i].itemsOnPage) |->
                      data.pages[i].itemsOnPage[j].desc]])

\* mutant: the text is searched as written
globalText_AsWritten(data) == join(safeSearchFields(data))

\* safeSearchFields.join(" ").toUpperCase()
globalText(data) == toUpperCase(join(safeSearchFields(data)))

\* keyingKeywords.find(kw => globalText.includes(kw)): <<>> is undefined
foundKeyword(text) ==
    LET i == FirstIndex([n \in 1..Len(keyingKeywords) |->
                            includes(text, keyingKeywords[n])])
    IN  IF i = 0 THEN <<>> ELSE keyingKeywords[i]

\* mutant: an order of ten lines or more is handled as a restricted one
restrictionOf_ByVolume(data) ==
    IF matchedItem(data.lineItems) # 0 THEN "prefix"
    ELSE IF foundKeyword(globalText(data)) # <<>> \/ actualLineCount(data) >= 10
         THEN "keyword"
    ELSE "none"

\* the keyword scan runs only `if (!isKeying)`
restrictionOf(data) ==
    IF matchedItem(data.lineItems) # 0 THEN "prefix"
    ELSE IF foundKeyword(globalText(data)) # <<>> THEN "keyword"
    ELSE "none"

\* mutant: without a specialist the order goes to the first member
keyingRoute_FirstMember(tm) ==
    LET i == FirstIndex([n \in 1..Len(tm) |-> includes(tm[n].role, Keying)])
    IN  IF i = 0 THEN tm[1].name ELSE tm[i].name

\* team.find(m => m.role.includes("Keying")), then its name or the fallback
keyingRoute(tm) ==
    LET i == FirstIndex([n \in 1..Len(tm) |-> includes(tm[n].role, Keying)])
    IN  IF i = 0 THEN "Keying Dept" ELSE tm[i].name

\* team.filter(m => m.role === "Order Entry")
oeReps(tm) == SelectSeq(tm, LAMBDA m : m.role = OrderEntry)

\* mutant: a sort that puts the later of two equal loads first
RECURSIVE sortByTotalPages_Unstable(_)
sortByTotalPages_Unstable(reps) ==
    IF Len(reps) <= 1 THEN reps
    ELSE LET rest == sortByTotalPages_Unstable(Tail(reps))
             k == Cardinality({i \in 1..Len(rest) :
                                   rest[i].totalPages <= reps[1].totalPages})
         IN  SubSeq(rest, 1, k) \o <<reps[1]>> \o SubSeq(rest, k + 1, Len(rest))

\* Array.prototype.sort with (a, b) => a.totalPages - b.totalPages: stable
RECURSIVE sortByTotalPages(_)
sortByTotalPages(reps) ==
    IF Len(reps) <= 1 THEN reps
    ELSE LET rest == sortByTotalPages(Tail(reps))
             k == Cardinality({i \in 1..Len(rest) :
                                   rest[i].totalPages < reps[1].totalPages})
         IN  SubSeq(rest, 1, k) \o <<reps[1]>> \o SubSeq(rest, k + 1, Len(rest))

\* targetRep.name throws a TypeError when no member is an "Order Entry"
determineRoutingThrows(data, tm) ==
    restrictionOf(data) = "none" /\ Len(oeReps(tm)) = 0

LogEntry(text, str, num, name) ==
    [text |-> text, str |-> str, num |-> num, name |-> name]

NoEvidence ==
    [text |-> Null, lineNumber |-> 0, pageNumber |-> 0, partNumber |-> <<>>,
     prefix |-> <<>>, keyword |-> <<>>]

determineRouting(data, tm) ==
    LET n == actualLineCount(data)
        start == << LogEntry("> Initializing Routing Protocol...", <<>>, 0, ""),
                    LogEntry("> Scanning content for flags...", <<>>, 0, "") >>
                 \o (IF n >= 10
                     THEN <<LogEntry("! ALERT: High Volume", <<>>, n, "")>>
                     ELSE <<>>)
        kind == restrictionOf(data)
        k == matchedItem(data.lineItems)
        item == data.lineItems[k]
        badPrefix == badPrefixOf(cleanPrefixList(item))
        keyword == foundKeyword(globalText(data))
        targetRep == sortByTotalPages(oeReps(tm))[1]
        route == IF kind = "none" THEN targetRep.name ELSE keyingRoute(tm)
        reason ==
            CASE kind = "prefix" ->
                   [text |-> "Restricted Prefix", prefix |-> badPrefix, pages |-> 0]
              [] kind = "keyword" ->
                   [text |-> "Global Keyword Match", prefix |-> <<>>, pages |-> 0]
              [] OTHER ->
                   [text |-> "Lowest Page Load", prefix |-> <<>>,
                    pages |-> targetRep.totalPages]
        evidence ==
            CASE kind = "prefix" ->
                   [text |-> "LINE DETECTED", lineNumber |-> item.lineNumber,
                    pageNumber |-> item.pageNumber,
                    partNumber |-> item.partNumber, prefix |-> badPrefix,
                    keyword |-> <<>>]
              [] kind = "keyword" ->
                   [NoEvidence EXCEPT !.text = "KEYWORD DETECTED",
                                      !.keyword = keyword]
              [] OTHER -> NoEvidence
        logs ==
            CASE kind = "prefix" ->
                   start
                   \o <<LogEntry("> MATCH FOUND: Keying Prefix", badPrefix,
                                 item.pageNumber, ""),
                        LogEntry("> ROUTING: Directed to Special Handling",
                                 <<>>, 0, route)>>
              [] kind = "keyword" ->
                   start
                   \o <<LogEntry("> MATCH FOUND: Global Keyword", keyword, 0, ""),
                        LogEntry("> ROUTING: Directed to Special Handling",
                                 <<>>, 0, route)>>
              [] OTHER ->
                   start
                   \o <<LogEntry("> No restrictions found.", <<>>, 0, ""),
                        LogEntry("> Calculating workload balance...", <<>>, 0, ""),
                        LogEntry("> ASSIGNMENT", <<>>, targetRep.totalPages,
                                 targetRep.name)>>
    IN  [route |-> route, flags |-> volumeFlags(n), reason |-> reason,
         evidence |-> evidence, logs |-> logs,
         pageCount |-> IF data.pageCount # <<>> /\ data.pageCount[1] # 0
                       THEN data.pageCount[1] ELSE 1]

\* { ...extractedData, ...decision }: the decision's fields win (pageCount)
finalOrderOf(data, decision) ==
    [totalLineCount |-> data.totalLineCount,
     routingKeywords |-> data.routingKeywords,
     lineItems |-> data.lineItems,
     pages |-> data.pages,
     route |-> decision.route, flags |-> decision.flags,
     reason |-> decision.reason, evidence |-> decision.evidence,
     logs |-> decision.logs, pageCount |-> decision.pageCount]

\* mutant: the pages are added, the card is not counted
applyDecision_PagesOnly(prevTeam, route, pageCount) ==
    [i \in 1..Len(prevTeam) |->
        IF prevTeam[i].name = route
        THEN [prevTeam[i] EXCEPT !.totalPages = @ + (IF pageCount # 0
                                                     THEN pageCount ELSE 1)]
        ELSE prevTeam[i]]

\* mutant: the balancer's sort is done on the roster itself, which is left
\* in the order of the loads
applyDecision_Sorted(prevTeam, route, pageCount) ==
    sortByTotalPages(
        [i \in 1..Len(prevTeam) |->
            IF prevTeam[i].name = route
            THEN [prevTeam[i] EXCEPT !.cards = @ + 1,
                                     !.totalPages = @ + (IF pageCount # 0
                                                         THEN pageCount ELSE 1)]
            ELSE prevTeam[i]])

\* the updater handed to setTeam, applied to the roster of that moment
applyDecision(prevTeam, route, pageCount) ==
    [i \in 1..Len(prevTeam) |->
        IF prevTeam[i].name = route
        THEN [prevTeam[i] EXCEPT !.cards = @ + 1,
                                 !.totalPages = @ + (IF pageCount # 0
                                                     THEN pageCount ELSE 1)]
        ELSE prevTeam[i]]

\* parseInt on what a number input holds: the leading digits, or NaN (<<>>)
RECURSIVE digitsValue(_, _)
digitsValue(s, acc) ==
    IF Len(s) = 0 \/ s[1] \notin Range(DigitChars) THEN acc
    ELSE digitsValue(Tail(s), 10 * acc + (IndexOf(s[1], DigitChars) - 1))

parseInt(s) ==
    IF Len(s) = 0 \/ s[1] \notin Range(DigitChars) THEN <<>>
    ELSE <<digitsValue(s, 0)>>

\* parseInt(value) || 0
editedValue(value) ==
    IF parseInt(value) = <<>> THEN 0 ELSE parseInt(value)[1]

(***************************************************************************)
(* Bounds and inputs.                                                      *)
(***************************************************************************)
MaxItems == 2        \* line items per scanned order (SpecRouting)
MaxLoad == 2         \* totalPages of a member of a balancing roster
MaxCards == 1        \* no order starts once a member holds this many cards

Files == {"po.pdf"}

P8804 == <<"8","8","0","4">>
P3100X == <<"3","1","0","0","-","X">>

Item(partNumber, prefixes) ==
    [lineNumber |-> 0, pageNumber |-> 0, partNumber |-> partNumber,
     prefixes |-> prefixes]

\* the items of a document are numbered in document order, one per page
Numbered(items) ==
    [i \in 1..Len(items) |-> [items[i] EXCEPT !.lineNumber = i, !.pageNumber = i]]

PlainItem == Item(P8804, << <<"2","8">> >>)

CoreItems ==
    { Item(P8804, << <<"5","9">> >>),
      Item(P3100X, << <<"A","L">> >>),
      Item(P8804, << <<"A","L","-">> >>),
      Item(P8804, << <<"a","l">> >>),
      Item(P8804, << <<"1","0">>, <<"5","9">> >>),
      Item(P3100X, << <<"1","0">>, <<"A","L">> >>),
      Item(P3100X, << <<" ","5","9",".">> >>),
      PlainItem }

OtherItems ==
    {Item(P8804, <<keyingPrefixes[i]>>) : i \in 1..Len(keyingPrefixes)}
    \cup { Item(P8804, << <<"A","l">> >>),
           Item(P8804, <<>>),
           Item(<<>>, << <<"A","L">> >>),
           Item(<<"1","3","1">>, << <<"2","8">>, <<"A","L">> >>) }

SeqsUpTo(S, n) == UNION {[1..k -> S] : k \in 0..n}

ItemSeqs ==
    {Numbered(q) : q \in SeqsUpTo(CoreItems, MaxItems) \cup {<<i>> : i \in OtherItems}}

Page(summary, descs) ==
    [summary |-> summary,
     itemsOnPage |-> [j \in 1..Len(descs) |-> [desc |-> descs[j]]]]

Text(routingKeywords, pages) ==
    [routingKeywords |-> routingKeywords, pages |-> pages]

NoText == Text(<<>>, <<>>)

Texts ==
    { NoText,
      Text(<< <<"Q","u","i","c","k"," ","S","h","i","p">> >>,
           << Page(<<"s","t","d"," ","o","r","d","e","r">>,
                   << <<"h","i","n","g","e">> >>) >>),
      Text(<<>>, << Page(<<"M","a","s","t","e","r"," ","k","e","y"," ","j","o","b">>,
                         <<>>) >>),
      Text(<< <<"M","a","s","t","e","r">>, <<"K","e","y">> >>, <<>>),
      Text(<<>>, << Page(<<>>, << <<"l","o","c","k">>,
                                  <<"p","a","c","k","a","g","e">> >>) >>),
      Text(<< <<"g","m","k">> >>, <<>>),
      Text(<<>>, << Page(<<"k","e","y">>, << <<"m","a","s","t","e","r">> >>),
                    Page(<<"k","e","s">>, << <<"o">> >>) >>) }

Data(lineItems, text, totalLineCount, pageCount) ==
    [pageCount |-> pageCount, totalLineCount |-> totalLineCount,
     routingKeywords |-> text.routingKeywords, lineItems |-> lineItems,
     pages |-> text.pages]

OptCounts(S) == {<<>>} \cup {<<n>> : n \in S}

\* orders that exercise the restriction scan
ScanData == {Data(li, t, <<>>, <<>>) : li \in ItemSeqs, t \in Texts}

\* orders that exercise the volume flag and the page count
VolumeData ==
    {Data(Numbered([i \in 1..n |-> PlainItem]), NoText, c, p) :
        n \in {0, 1, 3, 4, 10}, c \in OptCounts({0, 1, 3, 4, 9, 10}),
        p \in OptCounts({0, 2, 7})}

DataSet == ScanData \cup VolumeData

\* the orders of the whole-application specification
DataSmall ==
    { Data(<<>>, NoText, <<>>, <<>>),
      Data(Numbered(<<PlainItem>>), NoText, <<1>>, <<2>>),
      Data(<<>>, NoText, <<0>>, <<0>>),
      Data(Numbered(<<Item(P8804, << <<"5","9">> >>)>>), NoText, <<>>, <<2>>),
      Data(<<>>, Text(<< <<"g","m","k">> >>, <<>>), <<>>, <<>>) }

pageCountOf(data) == IF data.pageCount = <<>> THEN 0 ELSE data.pageCount[1]

\* the largest pageCount of DataSmall
MaxPageCount ==
    CHOOSE n \in {pageCountOf(d) : d \in DataSmall} :
        \A d \in DataSmall : pageCountOf(d) <= n

\* no order starts when it could carry a member beyond this many pages
MaxTotalPages == MaxPageCount + 1

\* INITIAL_TEAM is mock data: the rosters below stand for the rosters the
\* component is built with (with both kinds of member, without a specialist,
\* without a generalist); the counters are whatever the operator typed last
AppRosters ==
    { << Member(2, "Jairo Figueroa", OrderEntry, 0, 1),
         Member(7, "Paulina Lobo", OrderEntry, 0, 0) >>,
      << Member(3, "Maureen Thompson", IntlKeying, 0, 0),
         Member(4, "Susan Alpert", Chargebacks, 0, 1) >> }

\* rosters against which the restriction scan is exercised
ScanRosters ==
    { INITIAL_TEAM,
      << Member(2, "Jairo Figueroa", OrderEntry, 4, 25),
         Member(7, "Paulina Lobo", OrderEntry, 0, 0) >>,
      << Member(3, "Maureen Thompson", IntlKeying, 12, 60),
         Member(4, "Susan Alpert", Chargebacks, 2, 5) >>,
      << Member(7, "Paulina Lobo", OrderEntry, 0, 0),
         Member(4, "Susan Alpert", Chargebacks, 2, 5),
         Member(8, "Ana Ruiz", Keying, 1, 3),
         Member(3, "Maureen Thompson", IntlKeying, 12, 60) >> }

\* rosters against which the balancer is exercised: every load of every member
BalanceLayout ==
    << Member(1, "Hector Origel", OrderEntry, 5, 0),
       Member(4, "Susan Alpert", Chargebacks, 2, 0),
       Member(2, "Jairo Figueroa", OrderEntry, 4, 0),
       Member(3, "Maureen Thompson", IntlKeying, 12, 0),
       Member(7, "Paulina Lobo", OrderEntry, 0, 0) >>

BalanceRosters ==
    {[i \in 1..Len(BalanceLayout) |->
         [BalanceLayout[i] EXCEPT !.totalPages = loads[i]]] :
        loads \in [1..Len(BalanceLayout) -> 0..MaxLoad]}
    \cup { << Member(1, "A", OrderEntry, 0, 30),
              Member(2, "B", OrderEntry, 0, 10),
              Member(3, "C", OrderEntry, 0, 10) >> }

\* what a number input can hold
EditInputs == { <<>>, <<"1">> }

(***************************************************************************)
(* The component: its initial state and one action per handler or per      *)
(* step between two awaits of processOrder.                                *)
(***************************************************************************)
maxAttempts == 3     \* fetchWithBackoff(payload, maxAttempts = 3)

API_KEY == TRUE      \* process.env.REACT_APP_GOOGLE_API_KEY is set

Init ==
    /\ file = Null
    /\ analyzing = FALSE
    /\ currentOrder = <<>>
    /\ error = Null
    /\ team \in AppRosters
    /\ routingLog = <<>>
    /\ pc = "idle"
    /\ attempt = 0
    /\ closureTeam = <<>>
    /\ extractedData = <<>>
    /\ rejection = Null

\* the locals of a run are gone once the run has ended; after a parsed
\* response extractedData keeps the order until the next run starts
RunEnded ==
    /\ attempt' = 0
    /\ closureTeam' = <<>>
    /\ extractedData' = <<>>

\* handleFileChange: e.target.files[0], the file chosen
handleFileChange ==
    /\ file' \in Files
    /\ currentOrder' = <<>>
    /\ error' = Null
    /\ UNCHANGED <<analyzing, team, routingLog, pc, attempt, closureTeam,
                   extractedData, rejection>>

\* updateTeamStats(id, field, value), called by the two inputs of each card
\* (the handler of the current render: its `team` is the current roster)
updateTeamStats ==
    /\ \E k \in 1..Len(team), field \in {"cards", "totalPages"},
          value \in EditInputs :
          /\ editedValue(value) <=
                (IF field = "cards" THEN MaxCards - 1
                 ELSE MaxTotalPages - MaxPageCount)
          /\ team' = [i \in 1..Len(team) |->
                         IF team[i].id = team[k].id
                         THEN [team[i] EXCEPT ![field] = editedValue(value)]
                         ELSE team[i]]
    /\ UNCHANGED <<file, analyzing, currentOrder, error, routingLog, pc,
                   attempt, closureTeam, extractedData, rejection>>

\* processOrder up to reader.readAsDataURL(file); the button is disabled
\* while !file || analyzing
processOrder ==
    /\ file # Null /\ ~analyzing
    /\ file # Null /\ API_KEY
    /\ \A i \in 1..Len(team) :
          /\ team[i].cards < MaxCards
          /\ team[i].totalPages + MaxPageCount <= MaxTotalPages
    /\ analyzing' = TRUE
    /\ routingLog' = <<>>
    /\ error' = Null
    /\ pc' = "reading"
    /\ closureTeam' = team
    /\ extractedData' = <<>>
    /\ UNCHANGED <<file, currentOrder, team, attempt, rejection>>

\* reader.onload up to the first fetch of fetchWithBackoff
readerOnload ==
    /\ pc = "reading"
    /\ pc' = "fetching"
    /\ attempt' = 0
    /\ UNCHANGED <<file, analyzing, currentOrder, error, team, routingLog,
                   closureTeam, extractedData, rejection>>

\* the read fails: no reader.onerror is set, the run goes no further
readerError ==
    /\ pc = "reading"
    /\ pc' = "readFailed"
    /\ RunEnded
    /\ UNCHANGED <<file, analyzing, currentOrder, error, team, routingLog,
                   rejection>>

\* fetchWithBackoff: a 429 or a failed fetch, the delay, attempt++, and the
\* loop test; past maxAttempts it throws inside the callback
fetchRetry ==
    /\ pc = "fetching"
    /\ attempt < maxAttempts
    /\ IF attempt + 1 < maxAttempts
       THEN /\ attempt' = attempt + 1
            /\ pc' = "fetching"
            /\ UNCHANGED <<closureTeam, extractedData, rejection>>
       ELSE /\ pc' = "rejected"
            /\ rejection' = "API Limit Exceeded"
            /\ RunEnded
    /\ UNCHANGED <<file, analyzing, currentOrder, error, team, routingLog>>

\* a response without candidates text: throw new Error("No data returned from AI")
responseNoText ==
    /\ pc = "fetching"
    /\ pc' = "rejected"
    /\ rejection' = "No data returned from AI"
    /\ RunEnded
    /\ UNCHANGED <<file, analyzing, currentOrder, error, team, routingLog>>

\* JSON.parse fails: throw new Error("Analysis Failed. ...")
responseParseError ==
    /\ pc = "fetching"
    /\ pc' = "rejected"
    /\ rejection' = "Analysis Failed. Please try a clearer file."
    /\ RunEnded
    /\ UNCHANGED <<file, analyzing, currentOrder, error, team, routingLog>>

\* the response parses to an order d of the set D, but determineRouting(d)
\* throws: the callback's promise rejects
routingThrows(D) ==
    /\ pc = "fetching"
    /\ \E d \in D :
          /\ determineRoutingThrows(d, closureTeam)
          /\ extractedData' = <<d>>
    /\ pc' = "rejected"
    /\ rejection' = "TypeError"
    /\ attempt' = 0
    /\ closureTeam' = <<>>
    /\ UNCHANGED <<file, analyzing, currentOrder, error, team, routingLog>>

\* the response parses to an order d of the set D; lines 523-540: the
\* decision, setCurrentOrder, setRoutingLog, setTeam with its updater,
\* setAnalyzing(false), without a pause from JSON.parse on
routeOrder(D) ==
    /\ pc = "fetching"
    /\ \E d \in D :
          /\ ~determineRoutingThrows(d, closureTeam)
          /\ extractedData' = <<d>>
          /\ LET decision == determineRouting(d, closureTeam)
                 finalOrder == finalOrderOf(d, decision)
             IN  /\ currentOrder' = <<finalOrder>>
                 /\ routingLog' = decision.logs
                 /\ team' = applyDecision(team, decision.route,
                                          finalOrder.pageCount)
    /\ analyzing' = FALSE
    /\ pc' = "idle"
    /\ attempt' = 0
    /\ closureTeam' = <<>>
    /\ UNCHANGED <<file, error, rejection>>

Next ==
    \/ handleFileChange
    \/ updateTeamStats
    \/ processOrder
    \/ readerOnload
    \/ readerError
    \/ fetchRetry
    \/ responseNoText
    \/ responseParseError
    \/ routingThrows(DataSmall)
    \/ routeOrder(DataSmall)

Spec == Init /\ [][Next]_vars

(***************************************************************************)
(* The component under the scheduling of its host: the FileReader ends a   *)
(* read with a load or with an error, and a fetch resolves or rejects, so  *)
(* a step of the run in flight that stays possible is taken.  What the     *)
(* operator does (file choice, edits, clicks) is under no obligation.      *)
(***************************************************************************)
Fairness ==
    /\ WF_vars(readerOnload \/ readerError)
    /\ WF_vars(fetchRetry \/ responseNoText \/ responseParseError
                \/ routingThrows(DataSmall) \/ routeOrder(DataSmall))

SpecLive == Spec /\ Fairness

(***************************************************************************)
(* determineRouting on its own: a run that has reached its fetch, for      *)
(* every roster and order of the input sets.                               *)
(***************************************************************************)
InitRouting ==
    /\ file \in Files
    /\ analyzing = TRUE
    /\ currentOrder = <<>>
    /\ error = Null
    /\ routingLog = <<>>
    /\ pc = "fetching"
    /\ attempt = 0
    /\ rejection = Null
    /\ extractedData = <<>>
    /\ team \in ScanRosters \cup BalanceRosters
    /\ closureTeam = team

\* the orders tried against a roster
DataFor(tm) == IF tm \in ScanRosters THEN DataSet ELSE DataSmall

NextRouting ==
    \/ routingThrows(DataFor(closureTeam))
    \/ routeOrder(DataFor(closureTeam))

SpecRouting == InitRouting /\ [][NextRouting]_vars

(***************************************************************************)
(* Vocabulary of the properties, written from their statements.            *)
(***************************************************************************)
RestrictedPrefixes ==
    { <<"1","0">>, <<"2","1">>, <<"2","2">>, <<"5","1">>, <<"5","9">>,
      <<"8","2">>, <<"8","3">>, <<"7","3">>, <<"A","L">> }

RestrictedKeywords ==
    { <<"M","K">>, <<"G","M","K">>, <<"S","K","D">>, <<"K","A">>,
      <<"K","E","Y","E","D">>, <<"M","A","S","T","E","R"," ","K","E","Y">>,
      <<"G","R","A","N","D"," ","M","A","S","T","E","R">>,
      <<"K","E","S","O">> }

KeptChars == Range(DigitChars) \cup Range(UpperCase)

\* a prefix as the scan compares it: the characters of [0-9A-Z] it holds
Normalized(p) == SelectSeq(p, LAMBDA c : c \in KeptChars)

NormalizedPrefixes(item) ==
    {Normalized(item.prefixes[i]) : i \in 1..Len(item.prefixes)}

\* the 31/AL rule
Skipped31AL(item) ==
    /\ Len(item.partNumber) >= 2
    /\ item.partNumber[1] = "3" /\ item.partNumber[2] = "1"
    /\ <<"A","L">> \in NormalizedPrefixes(item)

Qualifies(item) ==
    ~Skipped31AL(item) /\ NormalizedPrefixes(item) \cap RestrictedPrefixes # {}

\* the earliest qualifying line item, 0 when none qualifies
FirstQualifying(items) ==
    IF \E i \in 1..Len(items) : Qualifies(items[i])
    THEN CHOOSE i \in 1..Len(items) :
            Qualifies(items[i]) /\ \A j \in 1..(i - 1) : ~Qualifies(items[j])
    ELSE 0

\* the restricted prefix that comes first in the item's prefix list
FirstRestricted(item) ==
    LET i == CHOOSE i \in 1..Len(item.prefixes) :
                /\ Normalized(item.prefixes[i]) \in RestrictedPrefixes
                /\ \A j \in 1..(i - 1) :
                      Normalized(item.prefixes[j]) \notin RestrictedPrefixes
    IN  Normalized(item.prefixes[i])

\* c and u are the same letter, u in upper case, or the same character
SameIgnoringCase(c, u) ==
    c = u \/ \E i \in 1..Len(LowerCase) : LowerCase[i] = c /\ UpperCase[i] = u

ContainsIgnoringCase(text, kw) ==
    \E i \in 0..(Len(text) - Len(kw)) :
        \A j \in 1..Len(kw) : SameIgnoringCase(text[i + j], kw[j])

\* routingKeywords, then every summary, then every desc, a space between
RECURSIVE Spaced(_)
Spaced(fields) ==
    IF fields = <<>> THEN <<>>
    ELSE IF Len(fields) = 1 THEN fields[1]
    ELSE Spaced(SubSeq(fields, 1, Len(fields) - 1)) \o <<" ">>
         \o fields[Len(fields)]

RECURSIVE Descs(_)
Descs(pages) ==
    IF pages = <<>> THEN <<>>
    ELSE [j \in 1..Len(pages[1].itemsOnPage) |-> pages[1].itemsOnPage[j].desc]
         \o Descs(Tail(pages))

Corpus(d) ==
    Spaced(d.routingKeywords
           \o [i \in 1..Len(d.pages) |-> d.pages[i].summary]
           \o Descs(d.pages))

TextHasKeyword(d) ==
    \E kw \in RestrictedKeywords : ContainsIgnoringCase(Corpus(d), kw)

HasKeyingTag(role) ==
    \E i \in 1..(Len(role) - 5) :
        SubSeq(role, i, i + 5) = <<"K","e","y","i","n","g">>

Specialists(tm) == {i \in 1..Len(tm) : HasKeyingTag(tm[i].role)}

Generalists(tm) == {i \in 1..Len(tm) : tm[i].role = OrderEntry}

Least(S) == CHOOSE i \in S : \A j \in S : i <= j

\* the step in which a run computes its decision and applies it
RouteStep == pc = "fetching" /\ pc' = "idle"

\* a run has ended with a decision
Decided == pc = "idle" /\ currentOrder # <<>> /\ extractedData # <<>>

(***************************************************************************)
(* Properties of the restriction scan and of the balancer (SpecRouting).   *)
(***************************************************************************)

\* C1 (as stated): for every restricted prefix p and every roster with a
\* Keying specialist, if the first line item that qualifies (carries a
\* restricted normalized prefix, not skipped by the 31/AL rule) carries p,
\* the decision routes to the specialist with reason "Restricted Prefix 'p'"
\* and evidence "Prefix: [p]".
C1_AnyCarriedPrefixIsNamed ==
    [][RouteStep =>
        LET d == extractedData'[1]
            o == currentOrder'[1]
            k == FirstQualifying(d.lineItems)
        IN  \A p \in RestrictedPrefixes :
                (/\ Specialists(closureTeam) # {}
                 /\ k # 0
                 /\ p \in NormalizedPrefixes(d.lineItems[k]))
                => /\ o.route = closureTeam[Least(Specialists(closureTeam))].name
                   /\ o.reason.text = "Restricted Prefix"
                   /\ o.reason.prefix = p
                   /\ o.evidence.prefix = p]_vars

\* C1 (amended): for every roster with a Keying specialist, if some line
\* item qualifies, the decision routes to the (first) specialist, and reason
\* and evidence name the restricted prefix that comes first in the prefix
\* list of the first qualifying line item, whatever the loads are.
C1_FirstRestrictedPrefixIsNamed ==
    [][RouteStep =>
        LET d == extractedData'[1]
            o == currentOrder'[1]
            k == FirstQualifying(d.lineItems)
        IN  (Specialists(closureTeam) # {} /\ k # 0)
            => /\ o.route = closureTeam[Least(Specialists(closureTeam))].name
               /\ o.reason.text = "Restricted Prefix"
               /\ o.reason.prefix = FirstRestricted(d.lineItems[k])
               /\ o.evidence.text = "LINE DETECTED"
               /\ o.evidence.prefix = FirstRestricted(d.lineItems[k])]_vars

\* the end-to-end scenario: part 8804 with prefix 59, routed to Maureen
C1_Witness ==
    /\ Decided
    /\ Len(extractedData[1].lineItems) = 1
    /\ extractedData[1].lineItems[1].partNumber = P8804
    /\ extractedData[1].lineItems[1].prefixes = << <<"5","9">> >>
    /\ currentOrder[1].route = "Maureen Thompson"
    /\ currentOrder[1].reason.prefix = <<"5","9">>
    /\ currentOrder[1].evidence.prefix = <<"5","9">>

\* C2: the scan is first-match-wins in document order: when some line item
\* qualifies, reason and evidence cite the earliest such item (its line,
\* page and part number, one of its restricted prefixes), the trail holds
\* one match only, and the reason is never "Global Keyword Match", whatever
\* the document text holds.
C2_FirstMatchWins ==
    [][RouteStep =>
        LET d == extractedData'[1]
            o == currentOrder'[1]
            k == FirstQualifying(d.lineItems)
        IN  k # 0
            => /\ o.reason.text = "Restricted Prefix"
               /\ o.evidence.text = "LINE DETECTED"
               /\ o.evidence.lineNumber = d.lineItems[k].lineNumber
               /\ o.evidence.pageNumber = d.lineItems[k].pageNumber
               /\ o.evidence.partNumber = d.lineItems[k].partNumber
               /\ o.evidence.prefix \in
                     NormalizedPrefixes(d.lineItems[k]) \cap RestrictedPrefixes
               /\ o.evidence.keyword = <<>>
               /\ Cardinality({i \in 1..Len(o.logs) :
                     o.logs[i].text \in {"> MATCH FOUND: Keying Prefix",
                                         "> MATCH FOUND: Global Keyword"}}) = 1]_vars

\* item 1 does not qualify, item 2 does and is cited, though the text holds
\* a restricted keyword
C2_Witness ==
    /\ Decided
    /\ Len(extractedData[1].lineItems) = 2
    /\ ~Qualifies(extractedData[1].lineItems[1])
    /\ Qualifies(extractedData[1].lineItems[2])
    /\ TextHasKeyword(extractedData[1])
    /\ currentOrder[1].evidence.lineNumber = 2
    /\ currentOrder[1].reason.text = "Restricted Prefix"

\* C3: a line item whose part number starts with "31" and whose normalized
\* prefixes hold "AL" is never the item a decision cites, whatever else it
\* carries; the scan goes on to the next item; and an order whose only line
\* item is such an item, with no restricted keyword in its text, goes to a
\* generalist through the balancer.
C3_FalsePositiveSkipped ==
    [][RouteStep =>
        LET d == extractedData'[1]
            o == currentOrder'[1]
            n == Len(d.lineItems)
        IN  /\ \A i \in 1..n :
                  Skipped31AL(d.lineItems[i])
                  => ~(o.evidence.text = "LINE DETECTED"
                       /\ o.evidence.lineNumber = d.lineItems[i].lineNumber)
            /\ (n = 2 /\ Skipped31AL(d.lineItems[1]) /\ Qualifies(d.lineItems[2]))
                  => (o.evidence.text = "LINE DETECTED"
                      /\ o.evidence.lineNumber = d.lineItems[2].lineNumber)
            /\ (n = 1 /\ Skipped31AL(d.lineItems[1]) /\ ~TextHasKeyword(d))
                  => /\ o.reason.text = "Lowest Page Load"
                     /\ \E g \in Generalists(closureTeam) :
                           o.route = closureTeam[g].name
                     /\ \A x \in Specialists(closureTeam) :
                           o.route # closureTeam[x].name]_vars

\* part 3100-X with prefix AL alone, balanced to a generalist
C3_Witness ==
    /\ Decided
    /\ Len(extractedData[1].lineItems) = 1
    /\ extractedData[1].lineItems[1].partNumber = P3100X
    /\ extractedData[1].lineItems[1].prefixes = << <<"A","L">> >>
    /\ currentOrder[1].reason.text = "Lowest Page Load"
    /\ currentOrder[1].route = "Paulina Lobo"

\* C4: when no line item qualifies, the decision is a keyword match (reason
\* "Global Keyword Match", routed to the specialist when the roster has one)
\* exactly when the text of routingKeywords, summaries and descs holds a
\* restricted keyword as a substring in any letter case; otherwise the
\* balancer decides.
C4_KeywordMatchIffTextHasKeyword ==
    [][RouteStep =>
        LET d == extractedData'[1]
            o == currentOrder'[1]
        IN  FirstQualifying(d.lineItems) = 0
            => /\ (o.reason.text = "Global Keyword Match") <=> TextHasKeyword(d)
               /\ TextHasKeyword(d)
                  => /\ o.evidence.text = "KEYWORD DETECTED"
                     /\ o.evidence.keyword \in RestrictedKeywords
                     /\ ContainsIgnoringCase(Corpus(d), o.evidence.keyword)
                     /\ Specialists(closureTeam) # {}
                        => o.route =
                             closureTeam[Least(Specialists(closureTeam))].name
               /\ ~TextHasKeyword(d)
                  => /\ o.reason.text = "Lowest Page Load"
                     /\ o.evidence.text = Null]_vars

\* a summary holding "Master key" in mixed case, no qualifying line item
C4_Witness ==
    /\ Decided
    /\ FirstQualifying(extractedData[1].lineItems) = 0
    /\ Len(extractedData[1].pages) = 1
    /\ extractedData[1].pages[1].summary =
          <<"M","a","s","t","e","r"," ","k","e","y"," ","j","o","b">>
    /\ currentOrder[1].reason.text = "Global Keyword Match"
    /\ currentOrder[1].route = "Maureen Thompson"

\* C5: when no restriction applies, the route is the member with the least
\* totalPages among the members whose role is exactly "Order Entry", the
\* first of them in roster order when several share the least, and the
\* reason is "Lowest Page Load (<N>pgs)" with N that member's totalPages
\* before the update of this decision.
C5_LeastLoadedGeneralist ==
    [][RouteStep =>
        LET d == extractedData'[1]
            o == currentOrder'[1]
        IN  (FirstQualifying(d.lineItems) = 0 /\ ~TextHasKeyword(d))
            => /\ o.reason.text = "Lowest Page Load"
               /\ \E g \in Generalists(closureTeam) :
                     /\ o.route = closureTeam[g].name
                     /\ \A h \in Generalists(closureTeam) :
                           /\ closureTeam[g].totalPages <= closureTeam[h].totalPages
                           /\ h < g => closureTeam[g].totalPages
                                          < closureTeam[h].totalPages
                     /\ o.reason.pages = closureTeam[g].totalPages
                     /\ o.reason.pages = team[g].totalPages]_vars

\* A (30), B (10), C (10): B is chosen, with its load of 10 in the reason
C5_Witness ==
    /\ Decided
    /\ Len(team) = 3
    /\ team[1].name = "A" /\ team[1].totalPages = 30
    /\ team[3].name = "C" /\ team[3].totalPages = 10
    /\ currentOrder[1].route = "B"
    /\ currentOrder[1].reason.text = "Lowest Page Load"
    /\ currentOrder[1].reason.pages = 10

(***************************************************************************)
(* Properties of the roster update and of the run as a whole (Spec).       *)
(***************************************************************************)

\* the roster after a decision: the member named by the route gains one card
\* and pageCount pages, every other record is as it was
UpdatedBy(before, after, route, pageCount) ==
    /\ Len(after) = Len(before)
    /\ \A i \in 1..Len(before) :
          IF before[i].name = route
          THEN after[i] = [before[i] EXCEPT !.cards = @ + 1,
                                            !.totalPages = @ + pageCount]
          ELSE after[i] = before[i]

\* C6 (as stated): after a decision that assigns to X, X's cards grow by 1
\* and X's totalPages by the decision's pageCount, which is the input's
\* pageCount, or 1 when the input has none; every other record is unchanged;
\* for each decision of any sequence.
C6_UpdateByInputPageCount ==
    [][RouteStep =>
        LET d == extractedData'[1]
            o == currentOrder'[1]
        IN  /\ o.pageCount = (IF d.pageCount = <<>> THEN 1 ELSE d.pageCount[1])
            /\ UpdatedBy(team, team', o.route, o.pageCount)]_vars

\* C6 (amended): the same, the decision's pageCount being the input's
\* pageCount, or 1 when the input has none or has 0.
C6_UpdateByPageCountOrOne ==
    [][RouteStep =>
        LET d == extractedData'[1]
            o == currentOrder'[1]
        IN  /\ o.pageCount = (IF d.pageCount \in {<<>>, <<0>>} THEN 1
                              ELSE d.pageCount[1])
            /\ UpdatedBy(team, team', o.route, o.pageCount)]_vars

\* an order of 2 pages went to Paulina Lobo, who now holds 1 card and 2
\* pages, while Jairo Figueroa's record is as it was
C6_Witness ==
    /\ Decided
    /\ extractedData[1].pageCount = <<2>>
    /\ currentOrder[1].route = "Paulina Lobo"
    /\ team[2].name = "Paulina Lobo"
    /\ team[2].cards = 1 /\ team[2].totalPages = 2
    /\ team[1] = Member(2, "Jairo Figueroa", OrderEntry, 0, 1)

\* C7: decision and update are one transaction: the roster the decision
\* reads is the roster its update is applied to, so the generalist chosen
\* is the first least-loaded generalist of the roster as it stands just
\* before the update, and the N of the reason is that member's totalPages
\* at that moment.
C7_DecisionReadsCurrentRoster ==
    [][RouteStep =>
        LET o == currentOrder'[1]
        IN  /\ closureTeam = team
            /\ o.reason.text = "Lowest Page Load"
               => \E g \in Generalists(team) :
                     /\ o.route = team[g].name
                     /\ o.reason.pages = team[g].totalPages
                     /\ \A h \in Generalists(team) :
                           /\ team[g].totalPages <= team[h].totalPages
                           /\ h < g => team[g].totalPages < team[h].totalPages]_vars

\* C8: when no restriction applies and no member is an "Order Entry", the
\* decision fails with an error the caller observes (the error message is
\* set and the run is over), no decision is stored and the roster is
\* unchanged.
C8_EmptyPoolErrorSurfaced ==
    [][(/\ pc = "fetching"
        /\ extractedData' # <<>>
        /\ FirstQualifying(extractedData'[1].lineItems) = 0
        /\ ~TextHasKeyword(extractedData'[1])
        /\ Generalists(closureTeam) = {})
       => /\ error' # Null
          /\ analyzing' = FALSE
          /\ currentOrder' = currentOrder
          /\ team' = team]_vars

(***************************************************************************)
(* Properties of the normalizer and of the volume flag (SpecRouting).      *)
(***************************************************************************)

\* a prefix folded to upper case, then stripped of what is not in [0-9A-Z]
FoldedAndStripped(p) ==
    LET fold(c) == IF \E i \in 1..Len(LowerCase) : LowerCase[i] = c
                   THEN UpperCase[CHOOSE i \in 1..Len(LowerCase) :
                                     LowerCase[i] = c]
                   ELSE c
    IN  SelectSeq([i \in 1..Len(p) |-> fold(p[i])], LAMBDA c : c \in KeptChars)

\* C9: the normalization of a prefix is: fold to upper case, then delete
\* what is outside [0-9A-Z]; so a line item that carries "al", "Al", "AL-"
\* or " 59." (folded and stripped: a restricted prefix) and is not under the
\* 31/AL rule is detected as restricted, with that prefix.
C9_PrefixesAreCaseFolded ==
    [][RouteStep =>
        LET d == extractedData'[1]
            o == currentOrder'[1]
            folded(item) ==
                {FoldedAndStripped(item.prefixes[i]) : i \in 1..Len(item.prefixes)}
            under31AL(item) ==
                /\ Len(item.partNumber) >= 2
                /\ item.partNumber[1] = "3" /\ item.partNumber[2] = "1"
                /\ <<"A","L">> \in folded(item)
        IN  \A i \in 1..Len(d.lineItems) :
                (/\ folded(d.lineItems[i]) \cap RestrictedPrefixes # {}
                 /\ ~under31AL(d.lineItems[i]))
                => /\ o.reason.text = "Restricted Prefix"
                   /\ i = 1 => o.reason.prefix \in
                                  folded(d.lineItems[i]) \cap RestrictedPrefixes]_vars

VolumeFlagOf(n) ==
    IF n >= 10 THEN <<"10+ LINES">>
    ELSE IF 1 <= n /\ n <= 3 THEN <<"CHECKERED FLAG">>
    ELSE <<>>

\* C10 (as stated): the flag follows totalLineCount whenever the input has
\* it, whatever the number of line items (that number is used only when
\* totalLineCount is absent): >= 10 gives "10+ LINES", 1..3 gives
\* "CHECKERED FLAG", 0 and 4..9 give no flag; never both flags.
C10_TotalLineCountDecides ==
    [][RouteStep =>
        LET d == extractedData'[1]
            o == currentOrder'[1]
        IN  o.flags = VolumeFlagOf(IF d.totalLineCount = <<>>
                                   THEN Len(d.lineItems)
                                   ELSE d.totalLineCount[1])]_vars

\* C10 (amended): the flag follows totalLineCount whenever the input has a
\* totalLineCount other than 0, whatever the number of line items; that
\* number is used when totalLineCount is absent or 0.
C10_NonZeroTotalLineCountDecides ==
    [][RouteStep =>
        LET d == extractedData'[1]
            o == currentOrder'[1]
        IN  /\ o.flags = VolumeFlagOf(IF d.totalLineCount \in {<<>>, <<0>>}
                                      THEN Len(d.lineItems)
                                      ELSE d.totalLineCount[1])
            /\ Len(o.flags) <= 1]_vars

\* totalLineCount 3 with 10 line items: "CHECKERED FLAG"
C10_Witness ==
    /\ Decided
    /\ extractedData[1].totalLineCount = <<3>>
    /\ Len(extractedData[1].lineItems) = 10
    /\ currentOrder[1].flags = <<"CHECKERED FLAG">>

(***************************************************************************)
(* Properties of the decision as a function of its input (SpecRouting).    *)
(***************************************************************************)

\* the values of totalLineCount against which an order is compared:
\* absent, 0, a count of each flag and a count without a flag
LineCountVariants == {<<>>, <<0>>, <<2>>, <<5>>, <<10>>}

\* C11: flags never change the routing outcome: for any roster and any two
\* inputs that differ only in totalLineCount, determineRouting returns the
\* same route, reason and evidence, and the roster update that follows is
\* the same (the order routed in a step is compared with each of its
\* variants by totalLineCount, decided against the same roster).
C11_TotalLineCountDoesNotRoute ==
    [][RouteStep =>
        LET d == extractedData'[1]
            o == currentOrder'[1]
        IN  \A d2 \in {[d EXCEPT !.totalLineCount = c] : c \in LineCountVariants} :
                /\ ~determineRoutingThrows(d2, closureTeam)
                /\ \A o2 \in {determineRouting(d2, closureTeam)} :
                      /\ o2.route = o.route
                      /\ o2.reason = o.reason
                      /\ o2.evidence = o.evidence
                      /\ UpdatedBy(team, team', o2.route, o2.pageCount)]_vars

\* an order flagged "10+ LINES" by its totalLineCount, with 4 line items
\* (unflagged without it), balanced to Paulina Lobo like its variants
C11_Witness ==
    /\ Decided
    /\ extractedData[1].totalLineCount = <<10>>
    /\ Len(extractedData[1].lineItems) = 4
    /\ currentOrder[1].flags = <<"10+ LINES">>
    /\ determineRouting([extractedData[1] EXCEPT !.totalLineCount = <<>>],
                        INITIAL_TEAM).flags = <<>>
    /\ currentOrder[1].reason.text = "Lowest Page Load"
    /\ currentOrder[1].route = "Paulina Lobo"
    /\ Len(team) = Len(INITIAL_TEAM)
    /\ team[5].name = "Paulina Lobo" /\ team[5].cards = 1

\* a restriction matches the order: a line item qualifies, or the text holds
\* a restricted keyword
RestrictionMatches(d) == FirstQualifying(d.lineItems) # 0 \/ TextHasKeyword(d)

\* C12: when a restriction matches and the roster has no specialist (no
\* member with the "Keying" role tag), the decision does not fail: the route
\* is the fixed label "Keying Dept", reason and evidence are those of the
\* match, the trail records the redirection, and the roster update that
\* follows changes no operator's cards or totalPages.
C12_FallbackLabelWithoutSpecialist ==
    [][(/\ pc = "fetching"
        /\ extractedData' # <<>>
        /\ RestrictionMatches(extractedData'[1])
        /\ Specialists(closureTeam) = {})
       => LET d == extractedData'[1]
              o == currentOrder'[1]
              k == FirstQualifying(d.lineItems)
          IN  /\ RouteStep
              /\ error' = Null /\ analyzing' = FALSE
              /\ o.route = "Keying Dept"
              /\ IF k # 0
                 THEN /\ o.reason.text = "Restricted Prefix"
                      /\ o.reason.prefix = FirstRestricted(d.lineItems[k])
                      /\ o.evidence.text = "LINE DETECTED"
                      /\ o.evidence.lineNumber = d.lineItems[k].lineNumber
                      /\ o.evidence.pageNumber = d.lineItems[k].pageNumber
                      /\ o.evidence.partNumber = d.lineItems[k].partNumber
                      /\ o.evidence.prefix = FirstRestricted(d.lineItems[k])
                 ELSE /\ o.reason.text = "Global Keyword Match"
                      /\ o.evidence.text = "KEYWORD DETECTED"
                      /\ o.evidence.keyword \in RestrictedKeywords
                      /\ ContainsIgnoringCase(Corpus(d), o.evidence.keyword)
              /\ \E i \in 1..Len(o.logs) :
                    /\ o.logs[i].text = "> ROUTING: Directed to Special Handling"
                    /\ o.logs[i].name = "Keying Dept"
              /\ Len(team') = Len(team)
              /\ \A i \in 1..Len(team) :
                    /\ team'[i].cards = team[i].cards
                    /\ team'[i].totalPages = team[i].totalPages]_vars

\* prefix 59 against the roster of two generalists: "Keying Dept", and both
\* records as they were
C12_Witness ==
    /\ Decided
    /\ FirstQualifying(extractedData[1].lineItems) = 1
    /\ currentOrder[1].route = "Keying Dept"
    /\ currentOrder[1].reason.text = "Restricted Prefix"
    /\ currentOrder[1].reason.prefix = <<"5","9">>
    /\ team = << Member(2, "Jairo Figueroa", OrderEntry, 4, 25),
                 Member(7, "Paulina Lobo", OrderEntry, 0, 0) >>

(***************************************************************************)
(* Properties of the roster over the life of the component (Spec).         *)
(***************************************************************************)

\* two rosters hold the same members in the same order: same length, and
\* the same id, name and role at each position
SameMembers(r1, r2) ==
    /\ Len(r1) = Len(r2)
    /\ \A i \in 1..Len(r1) :
          /\ r1[i].id = r2[i].id
          /\ r1[i].name = r2[i].name
          /\ r1[i].role = r2[i].role

\* C13: in every state reachable by manual counter edits and routed orders,
\* the roster holds the same members in the same order with the same id,
\* name and role as the initial roster: only cards and totalPages ever
\* differ, no member is added, removed or reordered; and a step that
\* computes a decision (sort of the generalists included) changes the roster
\* by the update of that decision only, or not at all when it fails.
C13_RosterIdentityKept ==
    /\ \A r \in AppRosters : (team = r) => [](SameMembers(r, team))
    /\ [][/\ SameMembers(team, team')
          /\ RouteStep =>
               UpdatedBy(team, team', currentOrder'[1].route,
                         currentOrder'[1].pageCount)
          /\ (pc = "fetching" /\ pc' = "rejected") => team' = team]_vars

\* an order was balanced to Paulina Lobo, second of the roster but first of
\* the sorted generalists, and Jairo Figueroa's pages were then set to 0 by
\* hand: both still stand where they stood
C13_Witness ==
    /\ Decided
    /\ currentOrder[1].route = "Paulina Lobo"
    /\ team = << Member(2, "Jairo Figueroa", OrderEntry, 0, 0),
                 Member(7, "Paulina Lobo", OrderEntry, 1, 2) >>

(***************************************************************************)
(* Properties of the end of a run (SpecLive).                              *)
(***************************************************************************)

\* a run has failed: the read failed, or the callback's promise rejected
\* (API limit, empty response, parse failure, failure of determineRouting)
RunFailed == pc \in {"readFailed", "rejected"}

\* C14: every run of processOrder that sets analyzing to true eventually
\* sets it back to false, whether the run succeeds or fails (file read
\* error, API limit exceeded after the retries, empty AI response, JSON
\* parse failure, failure inside determineRouting), so that the button,
\* disabled while analyzing is true, becomes usable again; and a failure
\* ends with the error message set.
C14_AnalyzingEventuallyFalse ==
    /\ analyzing ~> ~analyzing
    /\ RunFailed ~> (error # Null)

====
